---- MODULE Spec2Model ----
(***************************************************************************)
(* A model of libchess: the geometry of piece.rs (Position::get_direction),*)
(* the per-kind shape predicates of move_validators.rs, and the board      *)
(* operations of game_manager.rs (GameManager).                            *)
(***************************************************************************)
EXTENDS Integers, Sequences, FiniteSets, TLC

VARIABLES whites, blacks, turn, op, piece, pos, err, ret, dir, flag, suggestion, pre, moves

vars == <<whites, blacks, turn, op, piece, pos, err, ret, dir, flag, suggestion, pre, moves>>

\* ------------------------------------------------------------------ piece.rs

MAX_ROW == 8

MAX_COLUMN == MAX_ROW

Players == {"White", "Black"}

Kinds == {"Queen", "King", "Pawn", "Bishop", "Knight", "Rook"}

Rows == 0 .. (MAX_ROW - 1)

Columns == 0 .. (MAX_COLUMN - 1)

\* Position::new
Position(row, column) == [row |-> row, column |-> column]

\* Piece::new
Piece(kind, row, column) == [kind |-> kind, row |-> row, column |-> column]

\* Position::from_piece
from_piece(p) == Position(p.row, p.column)

Squares == {Position(r, c) : r \in Rows, c \in Columns}

\* Option<Direction>::None
None == [tag |-> "None"]

\* Direction::Up(d) .. Direction::DownRight(d)
Ray(tag, d) == [tag |-> tag, dist |-> d]

\* Direction::Knight(KnightDirection)
Knight(kd) == [tag |-> "Knight", kd |-> kd]

\* the outcome of a u8 subtraction that would go below zero (a panic in a
\* checked build, a wrapped value in an unchecked one)
Underflow == [tag |-> "Underflow"]

RayTags == {"Up", "Left", "Down", "Right", "UpLeft", "UpRight", "DownLeft", "DownRight"}

KnightDirections ==
    {"UpLeft", "UpRight", "RightUp", "RightDown", "DownLeft", "DownRight", "LeftUp", "LeftDown"}

max(a, b) == IF a >= b THEN a ELSE b

min(a, b) == IF a <= b THEN a ELSE b

\* a distance with the operands taken in call order, a plain self - other
row_delta_unordered(self, other) == self.row - other.row

\* the row distance as get_direction computes it: rmax - rmin
row_delta(self, other) == max(self.row, other.row) - min(self.row, other.row)

\* the column distance as get_direction computes it: cmax - cmin
column_delta(self, other) == max(self.column, other.column) - min(self.column, other.column)

\* the diagonal chosen by the match on (self.row > other.row, self.column > other.column)
diagonal_direction(self, other, x) ==
    IF self.row > other.row
    THEN IF self.column > other.column THEN Ray("DownLeft", x) ELSE Ray("DownRight", x)
    ELSE IF self.column > other.column THEN Ray("UpLeft", x) ELSE Ray("UpRight", x)

\* the knight direction of two rows and one column
knight_direction_rows(self, other) ==
    IF self.row > other.row
    THEN IF self.column > other.column THEN Knight("DownLeft") ELSE Knight("DownRight")
    ELSE IF self.column > other.column THEN Knight("UpLeft") ELSE Knight("UpRight")

\* the knight direction of one row and two columns with the row named first
knight_direction_columns_row_first(self, other) ==
    IF self.row > other.row
    THEN IF self.column > other.column THEN Knight("DownLeft") ELSE Knight("DownRight")
    ELSE IF self.column > other.column THEN Knight("UpLeft") ELSE Knight("UpRight")

\* the knight direction of one row and two columns
knight_direction_columns(self, other) ==
    IF self.column > other.column
    THEN IF self.row > other.row THEN Knight("LeftDown") ELSE Knight("LeftUp")
    ELSE IF self.row > other.row THEN Knight("RightDown") ELSE Knight("RightUp")

\* Position::get_direction; a u8 difference below zero is Underflow
get_direction(self, other) ==
    LET x == row_delta(self, other)
        y == column_delta(self, other)
    IN  IF x < 0 \/ y < 0 THEN Underflow
        ELSE IF self.row = other.row
        THEN IF self.column > other.column THEN Ray("Left", y) ELSE Ray("Right", y)
        ELSE IF self.column = other.column
        THEN IF self.row > other.row THEN Ray("Down", x) ELSE Ray("Up", x)
        ELSE IF x = y THEN diagonal_direction(self, other, x)
        ELSE IF x = 2 /\ y = 1 THEN knight_direction_rows(self, other)
        ELSE IF x = 1 /\ y = 2 THEN knight_direction_columns(self, other)
        ELSE None

\* ------------------------------------------------------- move_validators.rs

is_pawn_in_start_pos(p, t) ==
    IF t = "Black" THEN p.row = MAX_ROW - 2 ELSE p.row = 1

\* a pawn move that allows two steps forward from any row
is_valid_pawn_move_two_steps_anywhere(p, end, t) ==
    LET direction == get_direction(from_piece(p), end)
    IN  IF direction.tag = "None" THEN FALSE
        ELSE IF t = "White" /\ direction.tag = "Up" THEN direction.dist <= 2
        ELSE IF t = "White" /\ direction.tag \in {"UpLeft", "UpRight"} THEN direction.dist = 1
        ELSE IF t = "Black" /\ direction.tag = "Down" THEN direction.dist <= 2
        ELSE IF t = "Black" /\ direction.tag \in {"DownLeft", "DownRight"} THEN direction.dist = 1
        ELSE FALSE

is_valid_pawn_move(p, end, t) ==
    LET direction == get_direction(from_piece(p), end)
        in_start_pos == is_pawn_in_start_pos(p, t)
    IN  IF direction.tag = "None" THEN FALSE
        ELSE IF t = "White" /\ direction.tag = "Up"
        THEN (in_start_pos /\ direction.dist <= 2) \/ direction.dist = 1
        ELSE IF t = "White" /\ direction.tag \in {"UpLeft", "UpRight"}
        THEN direction.dist = 1
        ELSE IF t = "Black" /\ direction.tag = "Down"
        THEN (in_start_pos /\ direction.dist <= 2) \/ direction.dist = 1
        ELSE IF t = "Black" /\ direction.tag \in {"DownLeft", "DownRight"}
        THEN direction.dist = 1
        ELSE FALSE

is_valid_bishop_move(p, end) ==
    LET direction == get_direction(from_piece(p), end)
    IN  IF direction.tag = "None" THEN FALSE
        ELSE direction.tag \in {"DownLeft", "DownRight", "UpLeft", "UpRight"}

is_valid_rook_move(p, end) ==
    LET direction == get_direction(from_piece(p), end)
    IN  IF direction.tag = "None" THEN FALSE
        ELSE direction.tag \in {"Up", "Down", "Left", "Right"}

\* a king move that leaves the distance unchecked
is_valid_king_move_any_distance(p, end) ==
    LET direction == get_direction(from_piece(p), end)
    IN  direction.tag \in RayTags

is_valid_king_move(p, end) ==
    LET direction == get_direction(from_piece(p), end)
    IN  IF direction.tag = "None" THEN FALSE
        ELSE IF direction.tag \in
                {"Down", "DownLeft", "DownRight", "Left", "Right", "Up", "UpLeft", "UpRight"}
        THEN direction.dist = 1
        ELSE FALSE

is_valid_queen_move(p, end) ==
    LET direction == get_direction(from_piece(p), end)
    IN  IF direction.tag = "None" THEN FALSE
        ELSE direction.tag \in
                {"Down", "DownLeft", "DownRight", "Left", "Right", "Up", "UpLeft", "UpRight"}

is_valid_knight_move(p, end) ==
    LET direction == get_direction(from_piece(p), end)
    IN  direction.tag = "Knight"

\* move_validators::is_valid_move, the shape predicate
is_valid_move(p, end, t) ==
    CASE p.kind = "King" -> is_valid_king_move(p, end)
      [] p.kind = "Queen" -> is_valid_queen_move(p, end)
      [] p.kind = "Knight" -> is_valid_knight_move(p, end)
      [] p.kind = "Bishop" -> is_valid_bishop_move(p, end)
      [] p.kind = "Rook" -> is_valid_rook_move(p, end)
      [] p.kind = "Pawn" -> is_valid_pawn_move(p, end, t)

\* ---------------------------------------------------------- game_manager.rs

\* the pieces of the side to move (the match on self.turn in move_piece and
\* is_friendly_fire)
side_to_move(w, b, t) == IF t = "Black" THEN b ELSE w

\* the pieces of the side not to move (the match on self.turn in move_suggestion)
side_not_to_move(w, b, t) == IF t = "Black" THEN w ELSE b

\* a friendly-fire test that looks at the side not to move
is_friendly_fire_other_side(w, b, t, end) ==
    LET pieces == side_not_to_move(w, b, t)
    IN  \E i \in 1 .. Len(pieces) : pieces[i].row = end.row /\ pieces[i].column = end.column

is_friendly_fire(w, b, t, end) ==
    LET pieces == side_to_move(w, b, t)
    IN  \E i \in 1 .. Len(pieces) : pieces[i].row = end.row /\ pieces[i].column = end.column

\* a match that also takes a piece on the destination for a blocker
is_blocking_or_equal(d, direction) ==
    /\ d.tag \in RayTags
    /\ d.tag = direction.tag
    /\ d.dist <= direction.dist

\* a match that takes two knight classifications for a blocker
is_blocking_same_variant(d, direction) ==
    /\ d.tag = direction.tag
    /\ d.tag \in RayTags => d.dist < direction.dist

\* the match of is_piece_blocking on (dir, direction): the same ray, nearer
is_blocking(d, direction) ==
    /\ d.tag \in RayTags
    /\ d.tag = direction.tag
    /\ d.dist < direction.dist

\* the loop of is_piece_blocking over the positions from index i on
RECURSIVE blocking_from(_, _, _, _, _)
blocking_from(positions, i, p, direction, t) ==
    IF i > Len(positions) THEN FALSE
    ELSE IF positions[i].row = p.row /\ positions[i].column = p.column
    THEN blocking_from(positions, i + 1, p, direction, t)
    ELSE IF ~ is_valid_move(p, positions[i], t)
    THEN blocking_from(positions, i + 1, p, direction, t)
    ELSE IF is_blocking(get_direction(from_piece(p), positions[i]), direction)
    THEN TRUE
    ELSE blocking_from(positions, i + 1, p, direction, t)

\* GameManager::is_piece_blocking, for an end that has a classification (the
\* unwrap of get_direction(end) panics otherwise)
is_piece_blocking(w, b, t, p, end) ==
    LET pieces == w \o b
        positions == [i \in 1 .. Len(pieces) |-> from_piece(pieces[i])]
        direction == get_direction(from_piece(p), end)
    IN  blocking_from(positions, 1, p, direction, t)

\* a validation without the friendly-fire test
GameManager_is_valid_move_without_friendly_fire(w, b, t, p, end) ==
    IF p.row = end.row /\ p.column = end.column THEN "SamePosition"
    ELSE IF ~ is_valid_move(p, end, t) THEN "InvalidMove"
    ELSE IF is_piece_blocking(w, b, t, p, end) THEN "PieceBlocking"
    ELSE "None"

\* a validation that checks the shape before the friendly fire
GameManager_is_valid_move_shape_first(w, b, t, p, end) ==
    IF p.row = end.row /\ p.column = end.column THEN "SamePosition"
    ELSE IF ~ is_valid_move(p, end, t) THEN "InvalidMove"
    ELSE IF is_friendly_fire(w, b, t, end) THEN "FriendlyFire"
    ELSE IF is_piece_blocking(w, b, t, p, end) THEN "PieceBlocking"
    ELSE "None"

\* GameManager::is_valid_move (validate): "None" or the MoveErr
GameManager_is_valid_move(w, b, t, p, end) ==
    IF p.row = end.row /\ p.column = end.column THEN "SamePosition"
    ELSE IF is_friendly_fire(w, b, t, end) THEN "FriendlyFire"
    ELSE IF ~ is_valid_move(p, end, t) THEN "InvalidMove"
    ELSE IF is_piece_blocking(w, b, t, p, end) THEN "PieceBlocking"
    ELSE "None"

\* a loop that passes over every piece of the column of arg
move_piece_skips_column(p, arg) == p.column = arg.column

\* the condition under which the loop of move_piece passes over p
move_piece_skips(p, arg) == p.row /= arg.row /\ p.column = arg.column

\* the index of the piece the loop of move_piece relocates, 0 when it ends
\* without relocating any
RECURSIVE move_piece_target(_, _, _)
move_piece_target(pieces, i, arg) ==
    IF i > Len(pieces) THEN 0
    ELSE IF move_piece_skips(pieces[i], arg) THEN move_piece_target(pieces, i + 1, arg)
    ELSE i

\* the side-to-move collection after the loop of move_piece
move_piece_loop(pieces, arg, end) ==
    LET i == move_piece_target(pieces, 1, arg)
    IN  IF i = 0 THEN pieces
        ELSE [pieces EXCEPT ![i] = Piece(pieces[i].kind, end.row, end.column)]

\* a move_piece that relocates before it validates
move_piece_relocating_first(w, b, t, arg, end) ==
    LET e == GameManager_is_valid_move(w, b, t, arg, end)
        pieces == side_to_move(w, b, t)
        moved == move_piece_loop(pieces, arg, end)
    IN  [err |-> e,
         ret |-> IF e /= "None" THEN e
                 ELSE IF move_piece_target(pieces, 1, arg) = 0 THEN "InvalidMove" ELSE "Ok",
         whites |-> IF t = "Black" THEN w ELSE moved,
         blacks |-> IF t = "Black" THEN moved ELSE b]

\* GameManager::move_piece: the result and the board it leaves
move_piece(w, b, t, arg, end) ==
    LET e == GameManager_is_valid_move(w, b, t, arg, end)
        pieces == side_to_move(w, b, t)
        moved == move_piece_loop(pieces, arg, end)
    IN  IF e /= "None"
        THEN [err |-> e, ret |-> e, whites |-> w, blacks |-> b]
        ELSE IF move_piece_target(pieces, 1, arg) = 0
        THEN [err |-> e, ret |-> "InvalidMove", whites |-> w, blacks |-> b]
        ELSE [err |-> e, ret |-> "Ok",
              whites |-> IF t = "Black" THEN w ELSE moved,
              blacks |-> IF t = "Black" THEN moved ELSE b]

\* a row loop that starts at row 1
column_positions_from_row_one(w, b, t, p, ci) ==
    SelectSeq([k \in 1 .. (MAX_ROW - 1) |-> Position(k, ci)],
              LAMBDA q : GameManager_is_valid_move(w, b, t, p, q) = "None")

\* the inner loop of move_suggestion over the rows of column ci
column_positions(w, b, t, p, ci) ==
    SelectSeq([k \in 1 .. MAX_ROW |-> Position(k - 1, ci)],
              LAMBDA q : GameManager_is_valid_move(w, b, t, p, q) = "None")

\* a pawn filter that retains every position
pawn_filter_keep_all(w, b, t, p, positions) == positions

\* the pawn filter of move_suggestion
pawn_filter(w, b, t, p, positions) ==
    LET pieces == side_not_to_move(w, b, t)
    IN  SelectSeq(positions,
                  LAMBDA q : \/ q.column = p.column
                             \/ \E i \in 1 .. Len(pieces) :
                                    pieces[i].row = q.row /\ pieces[i].column = q.column)

\* the outer loop of move_suggestion from column ci on
RECURSIVE suggestion_from(_, _, _, _, _, _)
suggestion_from(w, b, t, p, ci, positions) ==
    IF ci >= MAX_COLUMN THEN positions
    ELSE LET scanned == positions \o column_positions(w, b, t, p, ci)
         IN  suggestion_from(w, b, t, p, ci + 1,
                             IF p.kind = "Pawn" THEN pawn_filter(w, b, t, p, scanned)
                             ELSE scanned)

\* GameManager::move_suggestion
move_suggestion(w, b, t, p) == suggestion_from(w, b, t, p, 0, <<>>)

\* GameManager::swap_turn
\* a swap_turn that always hands the move to Black
swap_turn_to_black(t) == "Black"

swap_turn(t) == IF t = "Black" THEN "White" ELSE "Black"

create_whites ==
    << Piece("Rook", 0, 0), Piece("Knight", 0, 1), Piece("Bishop", 0, 2), Piece("Queen", 0, 3),
       Piece("King", 0, 4), Piece("Bishop", 0, 5), Piece("Knight", 0, 6), Piece("Rook", 0, 7) >>
    \o [i \in 1 .. 8 |-> Piece("Pawn", 1, i - 1)]

create_blacks_from_whites(w) ==
    [i \in 1 .. Len(w) |-> Piece(w[i].kind, 7 - w[i].row, w[i].column)]

\* GameManager::new
new == [whites |-> create_whites,
        blacks |-> create_blacks_from_whites(create_whites),
        turn |-> "White"]

\* ------------------------------------------------------------------- bounds

\* successful moves in one run of the game
MaxMoves == 2

\* ------------------------------------------------------ the game, GameManager

Members(s) == {s[i] : i \in 1 .. Len(s)}

\* pieces passed that are not taken from the board, as the tests do
ExtraPieces ==
    { Piece("Rook", 4, 4), Piece("Bishop", 4, 4), Piece("Knight", 4, 4),
      Piece("Pawn", 1, 2), Piece("Pawn", 6, 2) }

\* the pieces a caller passes to a board of any shape: those of the side to
\* move, and pieces that are not on the board
PieceArgs == Members(side_to_move(whites, blacks, turn)) \cup ExtraPieces

NoPiece == Piece("Pawn", 0, 0)

NoPosition == Position(0, 0)

Board == [whites |-> whites, blacks |-> blacks, turn |-> turn]

\* no call made yet on the board g
Constructed(g) ==
    /\ whites = g.whites
    /\ blacks = g.blacks
    /\ turn = g.turn
    /\ pre = g
    /\ op = "new"
    /\ piece = NoPiece
    /\ pos = NoPosition
    /\ err = "None"
    /\ ret = "None"
    /\ dir = None
    /\ flag = FALSE
    /\ suggestion = <<>>
    /\ moves = 0

Init == Constructed(new)

\* a call is made when the previous one has returned to the caller
Idle == op \in {"new", "idle"}

\* a move_piece that also hands the move to the other side
MovePiece_swapping(p, end) ==
    /\ Idle
    /\ moves < MaxMoves
    /\ \E r \in {move_piece(whites, blacks, turn, p, end)} :
           /\ whites' = r.whites
           /\ blacks' = r.blacks
           /\ err' = r.err
           /\ ret' = r.ret
           /\ moves' = IF r.ret = "Ok" THEN moves + 1 ELSE moves
    /\ turn' = swap_turn(turn)
    /\ op' = "move_piece"
    /\ piece' = p
    /\ pos' = end
    /\ pre' = Board
    /\ UNCHANGED <<dir, flag, suggestion>>

MovePiece(p, end) ==
    /\ Idle
    /\ moves < MaxMoves
    /\ \E r \in {move_piece(whites, blacks, turn, p, end)} :
           /\ whites' = r.whites
           /\ blacks' = r.blacks
           /\ err' = r.err
           /\ ret' = r.ret
           /\ moves' = IF r.ret = "Ok" THEN moves + 1 ELSE moves
    /\ op' = "move_piece"
    /\ piece' = p
    /\ pos' = end
    /\ pre' = Board
    /\ UNCHANGED <<turn, dir, flag, suggestion>>

SwapTurn ==
    /\ Idle
    /\ turn' = swap_turn(turn)
    /\ op' = "swap_turn"
    /\ pre' = Board
    /\ UNCHANGED <<whites, blacks, piece, pos, err, ret, dir, flag, suggestion, moves>>

MoveSuggestion(p) ==
    /\ Idle
    /\ suggestion' = move_suggestion(whites, blacks, turn, p)
    /\ op' = "move_suggestion"
    /\ piece' = p
    /\ pre' = Board
    /\ UNCHANGED <<whites, blacks, turn, pos, err, ret, dir, flag, moves>>

\* a direct call of is_piece_blocking, as the tests of game_manager.rs make;
\* the unwrap of a missing classification of end panics
IsPieceBlocking(p, end) ==
    /\ Idle
    /\ IF get_direction(from_piece(p), end).tag = "None"
       THEN ret' = "panic" /\ flag' = FALSE
       ELSE ret' = "returned" /\ flag' = is_piece_blocking(whites, blacks, turn, p, end)
    /\ op' = "is_piece_blocking"
    /\ piece' = p
    /\ pos' = end
    /\ pre' = Board
    /\ UNCHANGED <<whites, blacks, turn, err, dir, suggestion, moves>>

\* the caller takes the result; the board stays as the call left it
Return ==
    /\ op \in {"move_piece", "swap_turn", "move_suggestion"}
    /\ op' = "idle"
    /\ piece' = NoPiece
    /\ pos' = NoPosition
    /\ err' = "None"
    /\ ret' = "None"
    /\ suggestion' = <<>>
    /\ pre' = Board
    /\ UNCHANGED <<whites, blacks, turn, dir, flag, moves>>

\* in the game a caller passes the pieces of the side to move
Next ==
    \/ \E p \in Members(side_to_move(whites, blacks, turn)), end \in Squares : MovePiece(p, end)
    \/ SwapTurn
    \/ \E p \in Members(side_to_move(whites, blacks, turn)) : MoveSuggestion(p)
    \/ Return

\* the game from GameManager::new, call after call
Spec == Init /\ [][Next]_vars

\* ------------------------------------------- one call on a board of any shape

\* the boards built by the tests of game_manager.rs (targets around a piece
\* that is not on the board)
rook_targets == <<Piece("Pawn", 2, 4), Piece("Pawn", 4, 2), Piece("Pawn", 6, 4), Piece("Pawn", 4, 6)>>

bishop_targets == <<Piece("Pawn", 2, 2), Piece("Pawn", 2, 6), Piece("Pawn", 6, 6), Piece("Pawn", 6, 2)>>

TestBoards ==
    { [whites |-> <<>>, blacks |-> rook_targets, turn |-> "White"],
      [whites |-> <<>>, blacks |-> bishop_targets, turn |-> "White"],
      [whites |-> <<>>, blacks |-> <<Piece("Pawn", 2, 1), Piece("Pawn", 2, 3)>>, turn |-> "White"],
      [whites |-> <<Piece("Pawn", 5, 1), Piece("Pawn", 5, 3)>>, blacks |-> <<>>, turn |-> "Black"],
      [whites |-> <<Piece("Pawn", 3, 4)>>, blacks |-> <<Piece("Pawn", 2, 3)>>, turn |-> "White"],
      [whites |-> <<Piece("Pawn", 5, 4)>>, blacks |-> <<Piece("Pawn", 4, 3)>>, turn |-> "Black"] }

\* the distances at which the boards below put pieces on the rays of (4, 4)
Distances == {1, 2, 3}

\* boards with no shared square in which a piece of each kind is a member of
\* a collection, at (4, 4) for White and at (3, 3) for Black; the white one
\* has a piece of its own side on its right and up-right rays and a piece of
\* the other side on its down and down-right rays, and a knight of each side
\* stands a knight's move away from it
KindBoards ==
    { [whites |-> <<Piece("Pawn", 4, 4 + d), Piece(k, 4, 4), Piece("Pawn", 4 + d, 4 + d),
                    Piece("Knight", 6, 5), Piece("Pawn", 3 - e, 3), Piece("Pawn", 1, 2)>>,
       blacks |-> <<Piece("Pawn", 4 - d, 4), Piece(k, 3, 3), Piece("Pawn", 4 - d, 4 + d),
                    Piece("Knight", 2, 5), Piece("Pawn", 3, 3 - e), Piece("Pawn", 6, 2)>>,
       turn |-> t] : k \in Kinds, t \in Players, d \in Distances, e \in Distances }

InitBoards == \E g \in {new} \cup TestBoards \cup KindBoards : Constructed(g)

NextBoards ==
    \/ \E p \in PieceArgs, end \in Squares : MovePiece(p, end)
    \/ SwapTurn
    \/ \E p \in PieceArgs : MoveSuggestion(p)
    \/ \E p \in PieceArgs, end \in Squares : IsPieceBlocking(p, end)

SpecBoards == InitBoards /\ [][NextBoards]_vars

\* ------------------------------------------ the game on boards of a few pieces

\* boards of a few pieces with no two pieces of a side on one square, built
\* as the tests build a GameManager
PlayBoards ==
    { [whites |-> <<Piece("Rook", 0, 0), Piece("Pawn", 1, 0), Piece("Knight", 0, 1)>>,
       blacks |-> <<Piece("Pawn", 6, 0), Piece("Knight", 7, 1)>>, turn |-> "White"],
      [whites |-> <<Piece("King", 0, 4), Piece("Pawn", 1, 4)>>,
       blacks |-> <<Piece("Queen", 7, 3), Piece("Bishop", 7, 2)>>, turn |-> "Black"],
      [whites |-> <<Piece("Pawn", 3, 4)>>, blacks |-> <<Piece("Pawn", 2, 3)>>, turn |-> "White"],
      [whites |-> <<Piece("Pawn", 5, 4)>>, blacks |-> <<Piece("Pawn", 4, 3)>>, turn |-> "Black"] }

InitPlay == \E g \in PlayBoards : Constructed(g)

\* the game from a board of a few pieces, call after call
SpecPlay == InitPlay /\ [][Next]_vars

\* ------------------------------------------------ the functions on their own

\* a piece, an end and a side to pass to the functions of piece.rs and
\* move_validators.rs
InitPure ==
    /\ \E k \in Kinds, r \in Rows, c \in Columns : piece = Piece(k, r, c)
    /\ pos \in Squares
    /\ turn \in Players
    /\ whites = <<>>
    /\ blacks = <<>>
    /\ pre = [whites |-> <<>>, blacks |-> <<>>, turn |-> turn]
    /\ op = "input"
    /\ err = "None"
    /\ ret = "None"
    /\ dir = None
    /\ flag = FALSE
    /\ suggestion = <<>>
    /\ moves = 0

GetDirection ==
    /\ op = "input"
    /\ dir' = get_direction(from_piece(piece), pos)
    /\ op' = "get_direction"
    /\ UNCHANGED <<whites, blacks, turn, piece, pos, err, ret, flag, suggestion, pre, moves>>

IsValidMove ==
    /\ op = "input"
    /\ flag' = is_valid_move(piece, pos, turn)
    /\ op' = "is_valid_move"
    /\ UNCHANGED <<whites, blacks, turn, piece, pos, err, ret, dir, suggestion, pre, moves>>

NextPure == GetDirection \/ IsValidMove

SpecPure == InitPure /\ [][NextPure]_vars

\* ------------------------------------------------------------------- claims

Abs(n) == IF n < 0 THEN -n ELSE n

\* the signed row and column steps from the piece of the call to its end
DRow == pos.row - piece.row

DCol == pos.column - piece.column

SameSquare == DRow = 0 /\ DCol = 0

OnStraight == ~ SameSquare /\ (DRow = 0 \/ DCol = 0)

OnDiagonal == ~ SameSquare /\ Abs(DRow) = Abs(DCol)

OnRay == OnStraight \/ OnDiagonal

KnightOffset == {Abs(DRow), Abs(DCol)} = {1, 2}

\* the direction the signs of the steps name
RayName ==
    CASE DRow = 0 /\ DCol < 0 -> "Left"
      [] DRow = 0 /\ DCol > 0 -> "Right"
      [] DCol = 0 /\ DRow < 0 -> "Down"
      [] DCol = 0 /\ DRow > 0 -> "Up"
      [] DRow > 0 /\ DCol < 0 -> "UpLeft"
      [] DRow > 0 /\ DCol > 0 -> "UpRight"
      [] DRow < 0 /\ DCol < 0 -> "DownLeft"
      [] DRow < 0 /\ DCol > 0 -> "DownRight"
      [] OTHER -> "None"

RayLength == IF Abs(DRow) > Abs(DCol) THEN Abs(DRow) ELSE Abs(DCol)

\* the knight sub-variant: the two-step direction, then the one-step direction
KnightName ==
    CASE DRow = 2 /\ DCol = -1 -> "UpLeft"
      [] DRow = 2 /\ DCol = 1 -> "UpRight"
      [] DRow = -2 /\ DCol = -1 -> "DownLeft"
      [] DRow = -2 /\ DCol = 1 -> "DownRight"
      [] DCol = -2 /\ DRow = 1 -> "LeftUp"
      [] DCol = -2 /\ DRow = -1 -> "LeftDown"
      [] DCol = 2 /\ DRow = 1 -> "RightUp"
      [] DCol = 2 /\ DRow = -1 -> "RightDown"
      [] OTHER -> "None"

\* the collections of the call's board before and after it
PreSide == side_to_move(pre.whites, pre.blacks, pre.turn)

PostSide == side_to_move(whites, blacks, pre.turn)

PreOther == side_not_to_move(pre.whites, pre.blacks, pre.turn)

PostOther == side_not_to_move(whites, blacks, pre.turn)

PrePieces == pre.whites \o pre.blacks

NoSharedSquare ==
    \A i, j \in 1 .. Len(PrePieces) : i /= j => from_piece(PrePieces[i]) /= from_piece(PrePieces[j])

Occupied(sq) == \E i \in 1 .. Len(PrePieces) : from_piece(PrePieces[i]) = sq

FriendlyAt(sq) == \E i \in 1 .. Len(PreSide) : from_piece(PreSide[i]) = sq

\* what validate answers on the call's board for the call's piece and end
Validated == GameManager_is_valid_move(pre.whites, pre.blacks, pre.turn, piece, pos)

\* piece number i of the side to move went to the end, nothing else changed
RelocatedOnly(i) ==
    /\ PostSide = [PreSide EXCEPT ![i] = Piece(PreSide[i].kind, pos.row, pos.column)]
    /\ PostOther = PreOther

Sign(n) == IF n < 0 THEN -1 ELSE IF n > 0 THEN 1 ELSE 0

\* the k-th square on the way from the piece to the end
Step(k) == Position(piece.row + k * Sign(DRow), piece.column + k * Sign(DCol))

\* walking the squares strictly between the piece and the end finds a piece
WalkBlocked == \E k \in 1 .. (RayLength - 1) : Occupied(Step(k))

\* C1: on a board with no shared square, a successful move_piece of a piece
\* of the side to move puts the piece that was at its square on the
\* destination and leaves every other piece of both collections as it was.
C1_MoveRelocatesOnlyThePassedPiece ==
    (op = "move_piece" /\ ret = "Ok" /\ NoSharedSquare /\ piece \in Members(PreSide)) =>
        \E i \in 1 .. Len(PreSide) :
            /\ from_piece(PreSide[i]) = from_piece(piece)
            /\ RelocatedOnly(i)

\* C2: when move_piece returns an error both collections and the turn are
\* as before the call, and when validate rejects the move the error is the
\* one validate produced.
C2_ErrorLeavesBoardUnchanged ==
    op = "move_piece" =>
        /\ ret /= "Ok" => (whites = pre.whites /\ blacks = pre.blacks /\ turn = pre.turn)
        /\ Validated /= "None" => ret = Validated

C2_Witness ==
    /\ op = "move_piece"
    /\ ret = "PieceBlocking"
    /\ Validated = "PieceBlocking"
    /\ whites = pre.whites /\ Len(whites) > 0

\* C3 as stated: whenever validate returns Legal, move_piece reports success
\* and relocates a piece.
C3_LegalAlwaysSucceeds ==
    (op = "move_piece" /\ Validated = "None") =>
        /\ ret = "Ok"
        /\ \E i \in 1 .. Len(PreSide) : RelocatedOnly(i)

\* C3 amended: whenever validate returns Legal for a piece that is a member
\* of the side-to-move collection, move_piece reports success and relocates
\* a piece of that collection to the destination.
C3_LegalSucceedsForMember ==
    (op = "move_piece" /\ Validated = "None" /\ piece \in Members(PreSide)) =>
        /\ ret = "Ok"
        /\ \E i \in 1 .. Len(PreSide) : RelocatedOnly(i)

C3_Witness ==
    /\ op = "move_piece"
    /\ Validated = "None"
    /\ piece \in Members(PreSide)
    /\ ret = "Ok"
    /\ PostSide /= PreSide

\* C4: validate reports the first failing check in the order same square,
\* friendly fire, shape, obstruction.
C4_ValidationOrder ==
    op = "move_piece" =>
        /\ SameSquare => err = "SamePosition"
        /\ (~ SameSquare /\ FriendlyAt(pos)) => err = "FriendlyFire"
        /\ (~ SameSquare /\ ~ FriendlyAt(pos) /\ ~ is_valid_move(piece, pos, pre.turn))
               => err = "InvalidMove"
        /\ (~ SameSquare /\ ~ FriendlyAt(pos) /\ is_valid_move(piece, pos, pre.turn))
               => err = IF is_piece_blocking(pre.whites, pre.blacks, pre.turn, piece, pos)
                        THEN "PieceBlocking" ELSE "None"

\* a destination that holds a friendly piece and has an illegal shape
C4_Witness ==
    /\ op = "move_piece"
    /\ ~ SameSquare
    /\ FriendlyAt(pos)
    /\ ~ is_valid_move(piece, pos, pre.turn)
    /\ err = "FriendlyFire"

\* C5: for a destination that is shape-legal along a ray, is_piece_blocking
\* is true exactly when a piece of either side stands strictly between the
\* piece and the destination, as walking the squares in between finds it.
C5_BlockingIsStrictlyBetween ==
    (op = "is_piece_blocking" /\ OnRay /\ is_valid_move(piece, pos, pre.turn)) =>
        /\ ret = "returned"
        /\ flag <=> WalkBlocked

\* a blocked ray whose destination is occupied as well
C5_Witness ==
    /\ op = "is_piece_blocking"
    /\ OnRay
    /\ is_valid_move(piece, pos, pre.turn)
    /\ flag
    /\ Occupied(pos)

\* C6: for a knight-shaped destination of a Knight validate never returns
\* PieceBlocking: the outcome is FriendlyFire or Legal.
C6_KnightNeverBlocked ==
    (op = "move_piece" /\ piece.kind = "Knight" /\ KnightOffset) =>
        err \in {"FriendlyFire", "None"}

\* a legal knight move over an occupied square, with another piece a
\* knight's move away from the knight
C6_Witness ==
    /\ op = "move_piece"
    /\ piece.kind = "Knight"
    /\ KnightOffset
    /\ err = "None"
    /\ Occupied(Step(1))
    /\ \E i \in 1 .. Len(PrePieces) :
           get_direction(from_piece(piece), from_piece(PrePieces[i])).tag = "Knight"

\* C7: get_direction(A, A) yields no classification, and every ray
\* classification it returns carries a distance of at least 1.
C7_CoincidingSquaresHaveNoClassification ==
    op = "get_direction" =>
        /\ SameSquare => dir = None
        /\ dir.tag \in RayTags => dir.dist >= 1

\* C8: for distinct squares get_direction returns a ray exactly when they
\* share a row, a column or a diagonal; the ray is named by the signs of the
\* steps, its distance is the absolute difference, and no subtraction goes
\* below zero.
C8_RayClassification ==
    (op = "get_direction" /\ ~ SameSquare) =>
        /\ dir.tag /= "Underflow"
        /\ dir.tag \in RayTags <=> OnRay
        /\ OnRay => dir = Ray(RayName, RayLength)

C8_Witness ==
    /\ op = "get_direction"
    /\ DRow = 3 /\ DCol = -3
    /\ dir = Ray("UpLeft", 3)

\* C9: get_direction returns the knight marker exactly when the absolute
\* steps are 1 and 2, named two-step direction first; a distinct pair that
\* is on no ray and no knight offset has no classification.
C9_KnightClassification ==
    op = "get_direction" =>
        /\ dir.tag = "Knight" <=> KnightOffset
        /\ KnightOffset => dir = Knight(KnightName)
        /\ (~ SameSquare /\ ~ OnRay /\ ~ KnightOffset) => dir = None

C9_Witness ==
    /\ op = "get_direction"
    /\ DRow = 1 /\ DCol = -2
    /\ dir = Knight("LeftUp")

\* C10: for a distinct destination the shape predicate accepts for King the
\* squares at ray distance 1, for Queen the squares on a ray, for Rook those
\* on a row or column, for Bishop those on a diagonal, for Knight the knight
\* offsets; none is legal for both King and Knight, and Queen-legal is
\* Rook-legal or Bishop-legal.
C10_ShapePerKind ==
    (op = "is_valid_move" /\ ~ SameSquare) =>
        /\ piece.kind = "King" => (flag <=> (OnRay /\ RayLength = 1))
        /\ piece.kind = "Queen" => (flag <=> OnRay)
        /\ piece.kind = "Rook" => (flag <=> OnStraight)
        /\ piece.kind = "Bishop" => (flag <=> OnDiagonal)
        /\ piece.kind = "Knight" => (flag <=> KnightOffset)
        /\ ~ ( /\ is_valid_move(Piece("King", piece.row, piece.column), pos, turn)
               /\ is_valid_move(Piece("Knight", piece.row, piece.column), pos, turn) )
        /\ is_valid_move(Piece("Queen", piece.row, piece.column), pos, turn)
             <=> \/ is_valid_move(Piece("Rook", piece.row, piece.column), pos, turn)
                 \/ is_valid_move(Piece("Bishop", piece.row, piece.column), pos, turn)

C10_Witness ==
    /\ op = "is_valid_move"
    /\ piece.kind = "King"
    /\ OnRay /\ RayLength = 2
    /\ ~ flag

\* the rows the call's piece advances towards its end, for the side to move
Forward == IF turn = "White" THEN DRow ELSE - DRow

\* the row the pawns of the side to move start on
StartRow == IF turn = "White" THEN 1 ELSE 6

\* C11: the pawn shape predicate is true exactly for one step straight
\* forward, two steps straight forward from the side's start row, and one
\* step on a forward diagonal.
C11_PawnShape ==
    (op = "is_valid_move" /\ piece.kind = "Pawn") =>
        (flag <=> \/ DCol = 0 /\ Forward = 1
                  \/ DCol = 0 /\ Forward = 2 /\ piece.row = StartRow
                  \/ Abs(DCol) = 1 /\ Forward = 1)

\* two steps forward off the start row are rejected
C11_Witness ==
    /\ op = "is_valid_move"
    /\ piece.kind = "Pawn"
    /\ turn = "Black"
    /\ DCol = 0 /\ Forward = 2 /\ piece.row = 5
    /\ ~ flag

\* C19: for every kind the shape predicate rejects a destination equal to
\* the piece's own square.
C19_OwnSquareRejected ==
    (op = "is_valid_move" /\ SameSquare) => ~ flag

\* ---- move_suggestion

NoDuplicates(seq) == \A i, j \in 1 .. Len(seq) : i /= j => seq[i] /= seq[j]

EnemyAt(sq) == \E i \in 1 .. Len(PreOther) : from_piece(PreOther[i]) = sq

\* what validate answers on the call's board for the call's piece and sq
ValidatedAt(sq) == GameManager_is_valid_move(pre.whites, pre.blacks, pre.turn, piece, sq)

StraightTo(sq) ==
    /\ sq /= from_piece(piece)
    /\ sq.row = piece.row \/ sq.column = piece.column

DiagonalTo(sq) ==
    /\ sq /= from_piece(piece)
    /\ Abs(sq.row - piece.row) = Abs(sq.column - piece.column)

DistanceTo(sq) == max(Abs(sq.row - piece.row), Abs(sq.column - piece.column))

\* the k-th square on the way from the piece to sq
StepTo(sq, k) ==
    Position(piece.row + k * Sign(sq.row - piece.row),
             piece.column + k * Sign(sq.column - piece.column))

\* every square strictly between the piece and sq is empty
ClearBefore(sq) == \A k \in 1 .. (DistanceTo(sq) - 1) : ~ Occupied(StepTo(sq, k))

\* C12: move_suggestion holds, without duplicates, exactly the squares for
\* which validate returns Legal, less for a Pawn those of another column
\* that no piece of the side not to move occupies; a second call on the same
\* board returns the same.
C12_SuggestionIsTheLegalSquares ==
    op = "move_suggestion" =>
        /\ NoDuplicates(suggestion)
        /\ Members(suggestion) =
               {sq \in Squares :
                    /\ ValidatedAt(sq) = "None"
                    /\ (piece.kind = "Pawn" /\ sq.column /= piece.column) => EnemyAt(sq)}
        /\ suggestion = move_suggestion(whites, blacks, turn, piece)

\* a pawn with a legal diagonal square that is dropped and a square retained
C12_Witness ==
    /\ op = "move_suggestion"
    /\ piece.kind = "Pawn"
    /\ Len(suggestion) > 0
    /\ \E sq \in Squares : ValidatedAt(sq) = "None" /\ sq \notin Members(suggestion)

\* C13: for a Rook on its straight rays and a Bishop on its diagonal rays
\* move_suggestion holds along each ray the empty squares before the
\* nearest occupied square and that square when it holds a piece of the
\* other side, and nothing else.
C13_SlidingSuggestion ==
    (op = "move_suggestion" /\ piece.kind \in {"Rook", "Bishop"}) =>
        Members(suggestion) =
            {sq \in Squares :
                 /\ IF piece.kind = "Rook" THEN StraightTo(sq) ELSE DiagonalTo(sq)
                 /\ ClearBefore(sq)
                 /\ Occupied(sq) => (EnemyAt(sq) /\ ~ FriendlyAt(sq))}

\* the Rook at (4, 4) with the four targets of the test at distance 2
C13_Witness ==
    /\ op = "move_suggestion"
    /\ piece = Piece("Rook", 4, 4)
    /\ pre.whites = <<>>
    /\ pre.blacks = rook_targets
    /\ Len(suggestion) = 8

\* the forward direction of the side to move of the call's board
Ahead == IF pre.turn = "White" THEN 1 ELSE -1

ForwardSquare(k) == Position(piece.row + k * Ahead, piece.column)

ForwardDiagonals ==
    {Position(piece.row + Ahead, piece.column - 1), Position(piece.row + Ahead, piece.column + 1)}

OnStartRow == piece.row = (IF pre.turn = "White" THEN 1 ELSE 6)

\* C14: for a pawn whose forward squares are unoccupied move_suggestion
\* holds exactly the one-step forward square, the two-step forward square
\* when the pawn is on its start row, and each forward diagonal square that a
\* piece of the other side occupies.
C14_PawnSuggestion ==
    ( /\ op = "move_suggestion"
      /\ piece.kind = "Pawn"
      /\ ~ Occupied(ForwardSquare(1))
      /\ ~ Occupied(ForwardSquare(2)) ) =>
        Members(suggestion) =
            ({ForwardSquare(1)} \cap Squares)
            \cup (IF OnStartRow THEN {ForwardSquare(2)} ELSE {})
            \cup {sq \in ForwardDiagonals \cap Squares : EnemyAt(sq)}

\* a pawn on its start row with a piece to capture and an empty diagonal
C14_Witness ==
    /\ op = "move_suggestion"
    /\ piece.kind = "Pawn"
    /\ ~ Occupied(ForwardSquare(1))
    /\ ~ Occupied(ForwardSquare(2))
    /\ OnStartRow
    /\ \E sq \in ForwardDiagonals : EnemyAt(sq) /\ sq \in Members(suggestion)
    /\ Len(suggestion) >= 3

\* ---- the turn

\* C15: swap_turn hands the move from White to Black and from Black to
\* White, a second swap_turn gives back the side of before, and the pieces of
\* both collections stay as they were.
C15_SwapTurnFlips ==
    op = "swap_turn" =>
        /\ pre.turn = "White" => turn = "Black"
        /\ pre.turn = "Black" => turn = "White"
        /\ swap_turn(turn) = pre.turn
        /\ whites = pre.whites
        /\ blacks = pre.blacks

C15_Witness ==
    /\ op = "swap_turn"
    /\ pre.turn = "Black"
    /\ turn = "White"
    /\ Len(whites) > 0
    /\ Len(blacks) > 0

\* C16: the side to move changes in a swap_turn step only: after move_piece,
\* whatever it returns, and after move_suggestion the side to move is the one
\* of before the call.
C16_TurnChangesOnlyInSwapTurn ==
    /\ [](op \in {"move_piece", "move_suggestion"} => turn = pre.turn)
    /\ [][turn' /= turn => op' = "swap_turn"]_vars

\* Black has made two moves that succeeded and White none
C16_Witness ==
    /\ op = "move_piece"
    /\ ret = "Ok"
    /\ moves = 2
    /\ turn = "Black"
    /\ whites = <<Piece("King", 0, 4), Piece("Pawn", 1, 4)>>
    /\ Len(blacks) = 2
    /\ \A i \in 1 .. 2 : blacks[i] /= <<Piece("Queen", 7, 3), Piece("Bishop", 7, 2)>>[i]

\* ---- the board along a game

AllPieces == whites \o blacks

\* C17: from GameManager::new, whatever move_piece with pieces of the side
\* to move and swap_turn are called, no square holds more than one piece of
\* the two collections.
C17_OneOccupantPerSquare ==
    \A i, j \in 1 .. Len(AllPieces) :
        i /= j => from_piece(AllPieces[i]) /= from_piece(AllPieces[j])

\* C18: move_piece succeeds for a pawn's forward diagonal only when a piece
\* of the other side is on the end, and every end move_piece accepts is one
\* move_suggestion returns for the same piece and board.
C18_MoveAcceptsOnlySuggestions ==
    (op = "move_piece" /\ ret = "Ok") =>
        /\ (piece.kind = "Pawn" /\ pos.column /= piece.column) => EnemyAt(pos)
        /\ pos \in Members(move_suggestion(pre.whites, pre.blacks, pre.turn, piece))

SameSideApart(s) == \A i, j \in 1 .. Len(s) : i /= j => from_piece(s[i]) /= from_piece(s[j])

KindsOf(s) == [i \in 1 .. Len(s) |-> s[i].kind]

\* C20: from a board with no two pieces of a side on one square, no two
\* pieces of a side ever share a square, each side keeps its pieces' number
\* and kinds over every call, and move_piece leaves the collection of the
\* side not to move as it was.
C20_SidesKeepTheirPieces ==
    /\ SameSideApart(whites)
    /\ SameSideApart(blacks)
    /\ KindsOf(whites) = KindsOf(pre.whites)
    /\ KindsOf(blacks) = KindsOf(pre.blacks)
    /\ op = "move_piece" => PostOther = PreOther

\* a second move that succeeded and relocated another piece than the passed one
C20_Witness ==
    /\ op = "move_piece"
    /\ ret = "Ok"
    /\ moves = 2
    /\ \E i \in 1 .. Len(PreSide) : PostSide[i] /= PreSide[i] /\ PreSide[i] /= piece

====
